---- MODULE Spec2Model ----
(***************************************************************************)
(* A model of the content pipeline of src/src/agents.py:                   *)
(*   BaseAgent.call_llm        the retrying client of the remote service   *)
(*   AnalystAgent.run          normalisation, questions, competitor        *)
(*   PublisherAgent.build_page template-driven assembly of the page        *)
(* The program is single-threaded; one step of the model is one remote     *)
(* attempt (with the handler that follows it) or the code between two      *)
(* invocations of call_llm.                                                *)
(***************************************************************************)
EXTENDS Integers, Sequences, FiniteSets, TLC

VARIABLES
    pc,        \* position of the pipeline
    call,      \* the frame of the running call_llm invocation
    raw,       \* run's argument raw_data (while run is on the stack)
    product,   \* run's local: the normalised ProductData
    questions, \* run's local: list of references to UserQuestion objects
    q_response, \* run's local: the text call_llm returned for the questions
    heap,      \* the UserQuestion objects, by reference (1..Len(heap))
    state,     \* the AgentState run returned
    template,  \* build_page: TEMPLATES[template_key]
    bi,        \* build_page: index of the block being processed
    relevant,  \* build_page: relevant_ques of the current block
    qi,        \* build_page: index into relevant_ques
    qa_list,   \* build_page: qa_list of the current block
    sections,  \* build_page: sections produced so far
    page,      \* the PageOutput build_page returned
    err,       \* the exception that left run or build_page ("" when none)
    invocations, \* the call_llm invocations run or build_page has issued
    prev       \* what the last invocation a bare caller finished came to

vars == <<pc, call, raw, product, questions, q_response, heap, state,
          template, bi, relevant, qi, qa_list, sections, page, err,
          invocations, prev>>

-----------------------------------------------------------------------------
(* Bounds of the model.                                                    *)

\* longest template['structure'] explored
MaxBlocks == 2

\* longest text of raw_data['Price'] explored by the ingestion specification
MaxPriceLen == 3

-----------------------------------------------------------------------------
(* Character sequences: error messages and raw fields are sequences of     *)
(* one-character strings, so that `in`, lower(), split(), strip() and      *)
(* re.sub are computed and not assumed.                                    *)

\* needle in hay
Contains(hay, needle) ==
    \E i \in 1..(Len(hay) - Len(needle) + 1) :
        SubSeq(hay, i, i + Len(needle) - 1) = needle

LowerChar(c) ==
    CASE c = "Q" -> "q"
      [] c = "U" -> "u"
      [] c = "O" -> "o"
      [] c = "T" -> "t"
      [] c = "A" -> "a"
      [] OTHER -> c

\* str.lower()
Lower(s) == [i \in 1..Len(s) |-> LowerChar(s[i])]

-----------------------------------------------------------------------------
(* BaseAgent.call_llm                                                      *)

max_retries == 5
base_delay == 20
\* random.uniform(1, 5), in whole time units
JitterLo == 1
JitterHi == 5
Jitter == JitterLo..JitterHi

RECURSIVE Pow2(_)
Pow2(n) == IF n = 0 THEN 1 ELSE 2 * Pow2(n - 1)

\* str(e) of the exceptions model.generate_content raises
ErrorMsgs ==
    { <<"4", "2", "9">>,
      <<"Q", "u", "o", "t", "a">>,
      <<"5", "0", "0">> }

\* "429" in error_msg or "quota" in error_msg.lower()
IsTransient(error_msg) ==
    \/ Contains(error_msg, <<"4", "2", "9">>)
    \/ Contains(Lower(error_msg), <<"q", "u", "o", "t", "a">>)

\* the value returned on a non-transient failure
Fallback(expect_json) ==
    IF expect_json THEN "{}" ELSE "Error generating content."

\* faulty variant of WaitTime: no backoff
WaitTimeNoBackoff(attempt, jitter) == base_delay + jitter

\* (base_delay * (2 ** attempt)) + random.uniform(1, 5)
WaitTime(attempt, jitter) == base_delay * Pow2(attempt) + jitter

\* the prompts the pipeline sends, by purpose
Prompts == {"questions", "competitor", "answer", "freeform"}

\* response.text of the remote service, by purpose of the prompt
QuestionTexts ==
    { "not json",
      "{}",
      "[]",
      "{\"questions\": []}",
      "{\"questions\": null}",
      "{\"questions\": [{\"category\": \"Safety\", \"question_text\": \"q1\"}, {\"category\": \"Usage\", \"question_text\": \"q2\"}, {\"category\": \"Safety\", \"question_text\": \"q3\"}]}",
      "{\"questions\": [{\"category\": \"Safety\", \"question_text\": \"q1\"}, {\"category\": \"Usage\"}, {\"category\": \"Safety\", \"question_text\": \"q3\"}]}",
      "{\"questions\": [{\"category\": \"Usage\", \"question_text\": \"q2\"}, \"q3\"]}" }

CompetitorTexts ==
    { "not json",
      "{}",
      "[]",
      "{\"name\": \"Product B\", \"key_ingredients\": [\"Retinol\"], \"benefits\": [\"Glow\"], \"price\": 500}",
      "{\"name\": \"Product B\", \"key_ingredients\": [\"Retinol\"], \"benefits\": [\"Glow\"]}",
      "{\"name\": \"Product B\", \"key_ingredients\": [\"Retinol\"], \"benefits\": [\"Glow\"], \"price\": \"cheap\"}" }

AnswerTexts == { " Yes.\n" }

FreeformTexts == { "<p>Body</p>" }

Responses(prompt) ==
    CASE prompt = "questions" -> QuestionTexts
      [] prompt = "competitor" -> CompetitorTexts
      [] prompt = "answer" -> AnswerTexts
      [] OTHER -> FreeformTexts

\* no invocation is running
IdleCall ==
    [ status |-> "idle", prompt |-> "", expect_json |-> FALSE, attempt |-> 0,
      remote |-> 0, waits |-> 0, wait_time |-> 0, error_msg |-> <<>>,
      last |-> "none", response |-> "", result |-> "" ]

\* faulty variant of NewCall: the attempt counter lives on the agent and goes
\* on where the last invocation left it
NewCallCarriesOver(prompt, expect_json) ==
    [ status |-> "running", prompt |-> prompt, expect_json |-> expect_json,
      attempt |-> prev.attempt, remote |-> 0, waits |-> 0, wait_time |-> 0,
      error_msg |-> <<>>, last |-> "none", response |-> "", result |-> "" ]

\* entry of call_llm: attempt = 0 of range(max_retries). remote and waits
\* count the generate_content calls and the time.sleep calls made so far;
\* last is how the last generate_content call ended ("ok" or "error") and
\* response the text it delivered
NewCall(prompt, expect_json) ==
    [ status |-> "running", prompt |-> prompt, expect_json |-> expect_json,
      attempt |-> 0, remote |-> 0, waits |-> 0, wait_time |-> 0,
      error_msg |-> <<>>, last |-> "none", response |-> "", result |-> "" ]

\* what a finished invocation came to: how it ended, the attempt index it
\* ended on, the sleeps it made and the last of them
Outcome(c) ==
    [ status |-> c.status, attempt |-> c.attempt, waits |-> c.waits,
      wait_time |-> c.wait_time ]

\* no invocation has finished
NoOutcome == [ status |-> "none", attempt |-> 0, waits |-> 0, wait_time |-> 0 ]

\* the record of an invocation: its prompt and expect_json, the index of the
\* template block it is issued for (0 in run) and the question it asks about
\* (0 when none)
Issued(log, prompt, expect_json, block, question) ==
    Append(log, [ prompt |-> prompt, expect_json |-> expect_json,
                  block |-> block, question |-> question ])

\* faulty variant of InLoop: one attempt too many
InLoopOffByOne(c) == c.attempt < max_retries + 1

\* the loop condition of `for attempt in range(max_retries)`
InLoop(c) == c.attempt < max_retries

\* faulty variant of Success: the response text is lost
SuccessDropsText(c, text) ==
    [c EXCEPT !.remote = @ + 1, !.last = "ok", !.response = text,
              !.status = "returned", !.result = Fallback(c.expect_json)]

\* response = model.generate_content(user_content); return response.text
Success(c, text) ==
    [c EXCEPT !.remote = @ + 1, !.last = "ok", !.response = text,
              !.status = "returned", !.result = text]

\* generate_content succeeds
AttemptOk(text) ==
    /\ call.status = "running"
    /\ InLoop(call)
    /\ text \in Responses(call.prompt)
    /\ call' = Success(call, text)
    /\ UNCHANGED <<pc, raw, product, questions, q_response, heap, state,
                   template, bi, relevant, qi, qa_list, sections, page, err>>
    /\ UNCHANGED <<invocations, prev>>

\* faulty variant of Handle: every error is retried
HandleRetriesAll(c, msg, jitter) ==
    [c EXCEPT !.remote = @ + 1, !.error_msg = msg, !.last = "error",
              !.waits = @ + 1,
              !.wait_time = WaitTime(c.attempt, jitter),
              !.attempt = @ + 1]

\* faulty variant of Handle: no sleep after the last permitted attempt
HandleNoLastSleep(c, msg, jitter) ==
    IF IsTransient(msg)
    THEN IF c.attempt = max_retries - 1
         THEN [c EXCEPT !.remote = @ + 1, !.error_msg = msg,
                        !.last = "error", !.attempt = @ + 1]
         ELSE [c EXCEPT !.remote = @ + 1, !.error_msg = msg,
                        !.last = "error", !.waits = @ + 1,
                        !.wait_time = WaitTime(c.attempt, jitter),
                        !.attempt = @ + 1]
    ELSE [c EXCEPT !.remote = @ + 1, !.error_msg = msg, !.last = "error",
                   !.status = "returned",
                   !.result = Fallback(c.expect_json)]

\* the handler of an exception whose text is msg
Handle(c, msg, jitter) ==
    IF IsTransient(msg)
    THEN [c EXCEPT !.remote = @ + 1, !.error_msg = msg, !.last = "error",
                   !.waits = @ + 1,
                   !.wait_time = WaitTime(c.attempt, jitter),
                   !.attempt = @ + 1]
    ELSE [c EXCEPT !.remote = @ + 1, !.error_msg = msg, !.last = "error",
                   !.status = "returned",
                   !.result = Fallback(c.expect_json)]

\* generate_content raises a transient error: sleep, then the next attempt
AttemptTransient(msg, jitter) ==
    /\ call.status = "running"
    /\ InLoop(call)
    /\ IsTransient(msg)
    /\ call' = Handle(call, msg, jitter)
    /\ UNCHANGED <<pc, raw, product, questions, q_response, heap, state,
                   template, bi, relevant, qi, qa_list, sections, page, err>>
    /\ UNCHANGED <<invocations, prev>>

\* generate_content raises any other error: return the fallback at once
AttemptPermanent(msg) ==
    /\ call.status = "running"
    /\ InLoop(call)
    /\ ~IsTransient(msg)
    /\ call' = Handle(call, msg, JitterLo)
    /\ UNCHANGED <<pc, raw, product, questions, q_response, heap, state,
                   template, bi, relevant, qi, qa_list, sections, page, err>>
    /\ UNCHANGED <<invocations, prev>>

\* the loop is over: raise Exception("Max retries exceeded for Gemini API.")
RaiseMaxRetries ==
    /\ call.status = "running"
    /\ ~InLoop(call)
    /\ call' = [call EXCEPT !.status = "raised"]
    /\ UNCHANGED <<pc, raw, product, questions, q_response, heap, state,
                   template, bi, relevant, qi, qa_list, sections, page, err>>
    /\ UNCHANGED <<invocations, prev>>

CallStep ==
    \/ \E text \in QuestionTexts \cup CompetitorTexts \cup AnswerTexts
                     \cup FreeformTexts : AttemptOk(text)
    \/ \E msg \in ErrorMsgs, jitter \in Jitter : AttemptTransient(msg, jitter)
    \/ \E msg \in ErrorMsgs : AttemptPermanent(msg)
    \/ RaiseMaxRetries

-----------------------------------------------------------------------------
(* JSON: json.loads over the response texts of the model.  A decoded value *)
(* is tagged with its JSON type.                                           *)

JNull == [t |-> "null"]
JStr(str) == [t |-> "str", s |-> str]
JNum(mant, exp) == [t |-> "num", num |-> [m |-> mant, e |-> exp]]
JArr(arr) == [t |-> "arr", a |-> arr]
JObj(obj) == [t |-> "obj", o |-> obj]
EmptyObj == [k \in {} |-> JNull]

Q1 == JObj([category |-> JStr("Safety"), question_text |-> JStr("q1")])
Q2 == JObj([category |-> JStr("Usage"), question_text |-> JStr("q2")])
Q3 == JObj([category |-> JStr("Safety"), question_text |-> JStr("q3")])

\* json.loads(text): ok is FALSE when it raises JSONDecodeError
JsonLoads(text) ==
    CASE text = "{}" -> [ok |-> TRUE, v |-> JObj(EmptyObj)]
      [] text = "[]" -> [ok |-> TRUE, v |-> JArr(<<>>)]
      [] text = "{\"questions\": []}" ->
            [ok |-> TRUE, v |-> JObj([questions |-> JArr(<<>>)])]
      [] text = "{\"questions\": null}" ->
            [ok |-> TRUE, v |-> JObj([questions |-> JNull])]
      [] text = "{\"questions\": [{\"category\": \"Safety\", \"question_text\": \"q1\"}, {\"category\": \"Usage\", \"question_text\": \"q2\"}, {\"category\": \"Safety\", \"question_text\": \"q3\"}]}" ->
            [ok |-> TRUE, v |-> JObj([questions |-> JArr(<<Q1, Q2, Q3>>)])]
      [] text = "{\"questions\": [{\"category\": \"Safety\", \"question_text\": \"q1\"}, {\"category\": \"Usage\"}, {\"category\": \"Safety\", \"question_text\": \"q3\"}]}" ->
            [ok |-> TRUE,
             v |-> JObj([questions |->
                      JArr(<<Q1, JObj([category |-> JStr("Usage")]), Q3>>)])]
      [] text = "{\"questions\": [{\"category\": \"Usage\", \"question_text\": \"q2\"}, \"q3\"]}" ->
            [ok |-> TRUE, v |-> JObj([questions |-> JArr(<<Q2, JStr("q3")>>)])]
      [] text = "{\"name\": \"Product B\", \"key_ingredients\": [\"Retinol\"], \"benefits\": [\"Glow\"], \"price\": 500}" ->
            [ok |-> TRUE,
             v |-> JObj([name |-> JStr("Product B"),
                         key_ingredients |-> JArr(<<JStr("Retinol")>>),
                         benefits |-> JArr(<<JStr("Glow")>>),
                         price |-> JNum(500, 0)])]
      [] text = "{\"name\": \"Product B\", \"key_ingredients\": [\"Retinol\"], \"benefits\": [\"Glow\"]}" ->
            [ok |-> TRUE,
             v |-> JObj([name |-> JStr("Product B"),
                         key_ingredients |-> JArr(<<JStr("Retinol")>>),
                         benefits |-> JArr(<<JStr("Glow")>>)])]
      [] text = "{\"name\": \"Product B\", \"key_ingredients\": [\"Retinol\"], \"benefits\": [\"Glow\"], \"price\": \"cheap\"}" ->
            [ok |-> TRUE,
             v |-> JObj([name |-> JStr("Product B"),
                         key_ingredients |-> JArr(<<JStr("Retinol")>>),
                         benefits |-> JArr(<<JStr("Glow")>>),
                         price |-> JStr("cheap")])]
      [] OTHER -> [ok |-> FALSE]

-----------------------------------------------------------------------------
(* The records of src.models the agents construct.                         *)

\* Optional[str]
None == [some |-> FALSE, s |-> ""]
Some(str) == [some |-> TRUE, s |-> str]

\* UserQuestion(**q) validates: q is a mapping with a string category and a
\* string question_text (answer_text is optional)
UserQuestionValid(q) ==
    /\ q.t = "obj"
    /\ {"category", "question_text"} \subseteq DOMAIN q.o
    /\ q.o.category.t = "str"
    /\ q.o.question_text.t = "str"
    /\ "answer_text" \in DOMAIN q.o => q.o.answer_text.t \in {"str", "null"}

\* the UserQuestion built from a valid q
UserQuestion(q) ==
    [ category |-> q.o.category.s,
      question_text |-> q.o.question_text.s,
      answer_text |-> IF "answer_text" \in DOMAIN q.o
                         /\ q.o.answer_text.t = "str"
                      THEN Some(q.o.answer_text.s) ELSE None ]

IsStrList(v) == v.t = "arr" /\ \A i \in 1..Len(v.a) : v.a[i].t = "str"

\* CompetitorProduct(**d) validates: d is a mapping with a string name,
\* lists of strings key_ingredients and benefits, and a numeric price
CompetitorProductValid(d) ==
    /\ d.t = "obj"
    /\ {"name", "key_ingredients", "benefits", "price"} \subseteq DOMAIN d.o
    /\ d.o.name.t = "str"
    /\ IsStrList(d.o.key_ingredients)
    /\ IsStrList(d.o.benefits)
    /\ d.o.price.t = "num"

\* the CompetitorProduct built from a valid d
CompetitorProduct(d) ==
    [ name |-> d.o.name.s,
      key_ingredients |-> [i \in 1..Len(d.o.key_ingredients.a) |->
                               d.o.key_ingredients.a[i].s],
      benefits |-> [i \in 1..Len(d.o.benefits.a) |-> d.o.benefits.a[i].s],
      price |-> d.o.price.num ]

-----------------------------------------------------------------------------
(* AnalystAgent.run: normalisation of raw_data.                            *)

Digits == {"0", "1", "2", "3", "4", "5", "6", "7", "8", "9"}

DigitVal(c) ==
    CASE c = "0" -> 0 [] c = "1" -> 1 [] c = "2" -> 2 [] c = "3" -> 3
      [] c = "4" -> 4 [] c = "5" -> 5 [] c = "6" -> 6 [] c = "7" -> 7
      [] c = "8" -> 8 [] OTHER -> 9

DigitChar(d) ==
    CASE d = 0 -> "0" [] d = 1 -> "1" [] d = 2 -> "2" [] d = 3 -> "3"
      [] d = 4 -> "4" [] d = 5 -> "5" [] d = 6 -> "6" [] d = 7 -> "7"
      [] d = 8 -> "8" [] OTHER -> "9"

\* str(n) of a non-negative int
RECURSIVE IntToStr(_)
IntToStr(n) ==
    IF n < 10 THEN <<DigitChar(n)>>
    ELSE Append(IntToStr(n \div 10), DigitChar(n % 10))

\* raw_data['Price'] is a str, an int or None
PStr(chars) == [kind |-> "str", chars |-> chars, n |-> 0]
PInt(n) == [kind |-> "int", chars |-> <<>>, n |-> n]
PNone == [kind |-> "none", chars |-> <<>>, n |-> 0]

\* str(raw_data['Price'])
PriceStr(p) ==
    CASE p.kind = "str" -> p.chars
      [] p.kind = "int" -> IntToStr(p.n)
      [] OTHER -> <<"N", "o", "n", "e">>

\* the truth value of raw_data["Price"]
PriceTruthy(p) ==
    CASE p.kind = "str" -> p.chars # <<>>
      [] p.kind = "int" -> p.n # 0
      [] OTHER -> FALSE

\* re.sub(r'[^\d.]', '', raw_price)
RECURSIVE KeepDigitsAndDots(_)
KeepDigitsAndDots(s) ==
    IF s = <<>> THEN <<>>
    ELSE IF Head(s) \in Digits \cup {"."}
         THEN <<Head(s)>> \o KeepDigitsAndDots(Tail(s))
         ELSE KeepDigitsAndDots(Tail(s))

CountDots(s) == Cardinality({i \in 1..Len(s) : s[i] = "."})

\* float(s) accepts s, a text of digits and dots: at least one digit and
\* at most one dot
FloatParses(s) == CountDots(s) <= 1 /\ Len(s) - CountDots(s) >= 1

\* the digits of s read as a decimal integer
RECURSIVE DigitsValue(_)
DigitsValue(s) ==
    IF s = <<>> THEN 0
    ELSE IF s[Len(s)] = "." THEN DigitsValue(SubSeq(s, 1, Len(s) - 1))
         ELSE 10 * DigitsValue(SubSeq(s, 1, Len(s) - 1)) + DigitVal(s[Len(s)])

\* the number m / 10^e with no trailing zero in its fraction
RECURSIVE Canon(_, _)
Canon(m, e) ==
    IF e > 0 /\ m % 10 = 0 THEN Canon(m \div 10, e - 1) ELSE [m |-> m, e |-> e]

RECURSIVE Pow10(_)
Pow10(n) == IF n = 0 THEN 1 ELSE 10 * Pow10(n - 1)

\* the digits after the dot of s
FractionLen(s) ==
    IF CountDots(s) = 0 THEN 0
    ELSE Len(s) - (CHOOSE i \in 1..Len(s) : s[i] = ".")

\* float(s), for an s float accepts
FloatValue(s) == Canon(DigitsValue(s), FractionLen(s))

Zero == [m |-> 0, e |-> 0]

Whitespace == {" ", "\n", "\t"}

\* str.strip() of a character sequence
RECURSIVE StripChars(_)
StripChars(s) ==
    IF s = <<>> THEN s
    ELSE IF Head(s) \in Whitespace THEN StripChars(Tail(s))
    ELSE IF s[Len(s)] \in Whitespace THEN StripChars(SubSeq(s, 1, Len(s) - 1))
    ELSE s

\* str.split(",")
RECURSIVE SplitComma(_)
SplitComma(s) ==
    IF \A i \in 1..Len(s) : s[i] # "," THEN <<s>>
    ELSE LET i == CHOOSE j \in 1..Len(s) :
                      s[j] = "," /\ \A k \in 1..(j - 1) : s[k] # ","
         IN  <<SubSeq(s, 1, i - 1)>> \o SplitComma(SubSeq(s, i + 1, Len(s)))

\* [x.strip() for x in field.split(",")]
SplitField(s) ==
    LET parts == SplitComma(s)
    IN  [i \in 1..Len(parts) |-> StripChars(parts[i])]

RequiredKeys ==
    { "Product Name", "Skin Type", "Key Ingredients", "Benefits",
      "How to Use", "Side Effects", "Price" }

AllKeys == RequiredKeys \cup {"Concentration"}

\* the values of the raw fields other than Price
SkinTypeRaw == <<"O", "i", "l", "y", ",", " ", "D", "r", "y">>
IngredientsRaw == <<"C", ",", "E", " ">>
BenefitsRaw == <<"G", "l", "o", "w">>

PriceInputs ==
    { PStr(<<"$", "6", "9", "9">>), PStr(<<>>), PStr(<<"N", "/", "A">>),
      PStr(<<"1", ".", "2", ".", "3">>),
      PNone, PInt(0), PInt(699) }

\* the raw_data records run is given: every field present, with each
\* price; and one field absent
RawInputs ==
    {[keys |-> AllKeys, price |-> p] : p \in PriceInputs}
    \cup {[keys |-> AllKeys \ {k}, price |-> PStr(<<"$", "6", "9", "9">>)] :
              k \in AllKeys}

\* the characters the price texts of the ingestion specification are made
\* of: digits, a currency symbol, separators
PriceChars == {"0", "1", "5", "$", ",", "."}

\* every price text of at most MaxPriceLen of these characters
PriceTexts == UNION {[1..n -> PriceChars] : n \in 0..MaxPriceLen}

\* the raw_data records of the ingestion specification: every field
\* present or one field absent, with each price
IngestInputs ==
    {[keys |-> AllKeys \ ks, price |-> p] :
         ks \in {{}} \cup {{k} : k \in AllKeys},
         p \in PriceInputs \cup {PStr(t) : t \in PriceTexts}}

\* the fields of ProductData that accept None
OptionalFields == {"concentration"}

\* lines 58-70: the exception raised, or "" when ProductData is built.
\* raw_data['Price'] is read first, then float() is applied to what re.sub
\* leaves of a truthy price, then the other fields are read in the call of
\* ProductData, Concentration with get(), which gives None when absent
NormalizeError(rd) ==
    IF "Price" \notin rd.keys THEN "KeyError"
    ELSE IF PriceTruthy(rd.price)
            /\ ~FloatParses(KeepDigitsAndDots(PriceStr(rd.price)))
         THEN "ValueError"
    ELSE IF RequiredKeys \ rd.keys # {} THEN "KeyError"
    ELSE IF "Concentration" \notin rd.keys
            /\ "concentration" \notin OptionalFields
         THEN "ValidationError"
    ELSE ""

\* clean_price
CleanPrice(rd) ==
    IF PriceTruthy(rd.price)
    THEN FloatValue(KeepDigitsAndDots(PriceStr(rd.price)))
    ELSE Zero

\* ProductData(...)
ProductData(rd) ==
    [ name |-> "GlowBoost",
      has_concentration |-> "Concentration" \in rd.keys,
      concentration |-> IF "Concentration" \in rd.keys THEN "10%" ELSE "",
      skin_type |-> SplitField(SkinTypeRaw),
      ingredients |-> SplitField(IngredientsRaw),
      benefits |-> SplitField(BenefitsRaw),
      how_to_use |-> "Apply daily",
      side_effects |-> "Mild tingling",
      price |-> CleanPrice(rd) ]

-----------------------------------------------------------------------------
(* call_llm on its own: any caller invokes it, reads the outcome, and      *)
(* invokes it again.                                                       *)

NoProduct ==
    [ name |-> "", has_concentration |-> FALSE, concentration |-> "",
      skin_type |-> <<>>, ingredients |-> <<>>, benefits |-> <<>>,
      how_to_use |-> "", side_effects |-> "", price |-> [m |-> 0, e |-> 0] ]

NoCompetitor ==
    [ name |-> "", key_ingredients |-> <<>>, benefits |-> <<>>,
      price |-> [m |-> 0, e |-> 0] ]

NoState ==
    [ primary_product |-> NoProduct, generated_questions |-> <<>>,
      competitor_product |-> NoCompetitor ]

NoRaw == [ keys |-> {}, price |-> [kind |-> "none", chars |-> <<>>, n |-> 0] ]

NoTemplate == [ page_type |-> "", structure |-> <<>> ]

NoPage ==
    [ page_type |-> "", meta_title |-> <<>>, meta_description |-> <<>>,
      sections |-> <<>> ]

InitCall ==
    /\ pc = "caller"
    /\ call = IdleCall
    /\ raw = NoRaw
    /\ product = NoProduct
    /\ questions = <<>>
    /\ q_response = ""
    /\ heap = <<>>
    /\ state = NoState
    /\ template = NoTemplate
    /\ bi = 0
    /\ relevant = <<>>
    /\ qi = 0
    /\ qa_list = <<>>
    /\ sections = <<>>
    /\ page = NoPage
    /\ err = ""
    /\ invocations = <<>>
    /\ prev = NoOutcome

\* self.call_llm(system_prompt, user_content, expect_json)
Invoke(prompt, expect_json) ==
    /\ pc = "caller"
    /\ call.status = "idle"
    /\ call' = NewCall(prompt, expect_json)
    /\ UNCHANGED <<pc, raw, product, questions, q_response, heap, state,
                   template, bi, relevant, qi, qa_list, sections, page, err>>
    /\ UNCHANGED <<invocations, prev>>

\* the caller has the outcome; the frame is gone
Finish ==
    /\ pc = "caller"
    /\ call.status \in {"returned", "raised"}
    /\ call' = IdleCall
    /\ UNCHANGED <<pc, raw, product, questions, q_response, heap, state,
                   template, bi, relevant, qi, qa_list, sections, page, err>>
    /\ prev' = Outcome(call)
    /\ UNCHANGED invocations

NextCall ==
    \/ \E prompt \in Prompts, expect_json \in BOOLEAN :
           Invoke(prompt, expect_json)
    \/ CallStep
    \/ Finish

SpecCall == InitCall /\ [][NextCall]_vars

-----------------------------------------------------------------------------
(* AnalystAgent.run                                                        *)

Init ==
    /\ pc = "start"
    /\ call = IdleCall
    /\ raw = NoRaw
    /\ product = NoProduct
    /\ questions = <<>>
    /\ q_response = ""
    /\ heap = <<>>
    /\ state = NoState
    /\ template = NoTemplate
    /\ bi = 0
    /\ relevant = <<>>
    /\ qi = 0
    /\ qa_list = <<>>
    /\ sections = <<>>
    /\ page = NoPage
    /\ err = ""
    /\ invocations = <<>>
    /\ prev = NoOutcome

\* faulty variant of QuestionObjects: the valid entries are kept
QuestionObjectsPartial(text) ==
    LET d == JsonLoads(text)
    IN  IF d.ok /\ d.v.t = "obj" /\ "questions" \in DOMAIN d.v.o
           /\ d.v.o.questions.t = "arr"
        THEN LET a == d.v.o.questions.a
                 RECURSIVE Valid(_)
                 Valid(i) ==
                     IF i > Len(a) THEN <<>>
                     ELSE IF UserQuestionValid(a[i])
                          THEN <<UserQuestion(a[i])>> \o Valid(i + 1)
                          ELSE Valid(i + 1)
             IN  Valid(1)
        ELSE <<>>

\* lines 88-93: the UserQuestion objects of the response, all or none
QuestionObjects(text) ==
    LET d == JsonLoads(text)
    IN  IF d.ok /\ d.v.t = "obj" /\ "questions" \in DOMAIN d.v.o
           /\ d.v.o.questions.t = "arr"
           /\ \A i \in 1..Len(d.v.o.questions.a) :
                  UserQuestionValid(d.v.o.questions.a[i])
        THEN [i \in 1..Len(d.v.o.questions.a) |->
                  UserQuestion(d.v.o.questions.a[i])]
        ELSE <<>>

\* the placeholder of line 119
UnknownCompetitor ==
    [ name |-> "Unknown", key_ingredients |-> <<>>, benefits |-> <<>>,
      price |-> Zero ]

\* faulty variant of ParseCompetitor: a record with a name is accepted
ParseCompetitorNoCheck(text) ==
    LET d == JsonLoads(text)
    IN  IF d.ok /\ d.v.t = "obj" /\ "name" \in DOMAIN d.v.o
        THEN [ name |-> d.v.o.name.s, key_ingredients |-> <<>>,
               benefits |-> <<>>, price |-> Zero ]
        ELSE UnknownCompetitor

\* lines 115-119
ParseCompetitor(text) ==
    LET d == JsonLoads(text)
    IN  IF d.ok /\ CompetitorProductValid(d.v)
        THEN CompetitorProduct(d.v)
        ELSE UnknownCompetitor

\* run(raw_data), lines 55-86: normalise, then ask for the questions
RunBegin(rd) ==
    /\ pc = "start"
    /\ raw' = rd
    /\ IF NormalizeError(rd) # ""
       THEN /\ pc' = "run_raised"
            /\ err' = NormalizeError(rd)
            /\ UNCHANGED <<product, call, invocations>>
       ELSE /\ product' = ProductData(rd)
            /\ call' = NewCall("questions", TRUE)
            /\ invocations' = Issued(invocations, "questions", TRUE, 0, 0)
            /\ pc' = "q_call"
            /\ UNCHANGED err
    /\ UNCHANGED <<questions, q_response, heap, state, template, bi, relevant,
                   qi, qa_list, sections, page>>
    /\ UNCHANGED prev

\* ingestion on its own: run up to its first invocation, over the wider
\* inputs
NextIngest == \E rd \in IngestInputs : RunBegin(rd)

SpecIngest == Init /\ [][NextIngest]_vars

\* faulty variant of CompetitorCall: expect_json is left at its default
CompetitorCallText == NewCall("competitor", FALSE)

\* lines 109-113: self.call_llm(..., user_content=c_prompt, expect_json=True)
CompetitorCall == NewCall("competitor", TRUE)

\* lines 88-113: parse the questions, then ask for the competitor
QuestionsReturn ==
    /\ pc = "q_call"
    /\ call.status = "returned"
    /\ LET objs == QuestionObjects(call.result)
       IN  /\ heap' = heap \o objs
           /\ questions' = [i \in 1..Len(objs) |-> Len(heap) + i]
    /\ q_response' = call.result
    /\ call' = CompetitorCall
    /\ pc' = "c_call"
    /\ UNCHANGED <<raw, product, state, template, bi, relevant, qi, qa_list,
                   sections, page, err>>
    /\ invocations' = Issued(invocations, "competitor", TRUE, 0, 0)
    /\ UNCHANGED prev

\* lines 115-126: parse the competitor and return the AgentState
CompetitorReturn ==
    /\ pc = "c_call"
    /\ call.status = "returned"
    /\ state' = [ primary_product |-> product,
                  generated_questions |-> questions,
                  competitor_product |-> ParseCompetitor(call.result) ]
    /\ call' = IdleCall
    /\ raw' = NoRaw
    /\ product' = NoProduct
    /\ questions' = <<>>
    /\ q_response' = ""
    /\ pc' = "run_done"
    /\ UNCHANGED <<heap, template, bi, relevant, qi, qa_list, sections, page,
                   err>>
    /\ UNCHANGED <<invocations, prev>>

\* faulty variant of RaisedPc: the caller goes on after the exception
RaisedPcSwallowed(p) ==
    CASE p = "q_call" -> "c_call"
      [] p = "c_call" -> "run_done"
      [] OTHER -> "block"

\* the position an exception of call_llm leaves the pipeline in: neither
\* run nor build_page catches it
RaisedPc(p) == IF p \in {"q_call", "c_call"} THEN "run_raised"
               ELSE "build_raised"

\* call_llm raised: the exception leaves run or build_page
CallRaised ==
    /\ pc \in {"q_call", "c_call", "ans_call", "free_call"}
    /\ call.status = "raised"
    /\ pc' = RaisedPc(pc)
    /\ err' = "Max retries exceeded"
    /\ call' = IdleCall
    /\ UNCHANGED <<raw, product, questions, q_response, heap, state, template,
                   bi, relevant, qi, qa_list, sections, page>>
    /\ UNCHANGED <<invocations, prev>>

-----------------------------------------------------------------------------
(* PublisherAgent.build_page                                               *)

\* the functions of ContentLogicBlocks
LogicFunctions == {"generate_benefits_block", "compare_ingredients_block"}

\* 'compare' in func_name, over the function names of the templates
NameHasCompare(func_name) == func_name = "compare_ingredients_block"

\* the blocks of the templates
Blocks ==
    { [section |-> "Benefits", source |-> "logic_block",
       function |-> "generate_benefits_block"],
      [section |-> "Comparison", source |-> "logic_block",
       function |-> "compare_ingredients_block"],
      [section |-> "Extras", source |-> "logic_block",
       function |-> "generate_extras_block"],
      [section |-> "Safety FAQ", source |-> "subset_questions",
       filter |-> "Safety"],
      [instruction |-> "Write an introduction."] }

\* TEMPLATES: every structure of at most MaxBlocks blocks
Templates ==
    { [page_type |-> "FAQ Page", structure |-> st] :
          st \in UNION {[1..n -> Blocks] : n \in 0..MaxBlocks} }

\* block.get('section', "Section")
Heading(block) ==
    IF "section" \in DOMAIN block THEN block.section ELSE "Section"

\* faulty variant of IsLogic: the source of no block is recognised
IsLogicNever(block) == FALSE

\* 'source' in block and block['source'] == 'logic_block'
IsLogic(block) == "source" \in DOMAIN block /\ block.source = "logic_block"

IsSubset(block) ==
    "source" \in DOMAIN block /\ block.source = "subset_questions"

\* faulty variant of Filter: no question is left out
FilterAll(refs, h, category) == refs

\* [q for q in state.generated_questions if q.category == category]
RECURSIVE Filter(_, _, _)
Filter(refs, h, category) ==
    IF refs = <<>> THEN <<>>
    ELSE IF h[Head(refs)].category = category
         THEN <<Head(refs)>> \o Filter(Tail(refs), h, category)
         ELSE Filter(Tail(refs), h, category)

\* str.strip() over the response texts of the model
Strip(text) == IF text = " Yes.\n" THEN "Yes." ELSE text

\* faulty variant of ModelCopy: the same object, not a copy
ModelCopyAlias(h, q) == [heap |-> h, ref |-> q]

\* q.model_copy(): a new object with q's fields
ModelCopy(h, q) == [heap |-> Append(h, h[q]), ref |-> Len(h) + 1]

\* the section of a logic_block block, lines 141-147
LogicContent(block) ==
    [ kind |-> "logic", function |-> block.function,
      args |-> IF NameHasCompare(block.function) THEN 2 ELSE 1 ]

Section(block, content) == [heading |-> Heading(block), content |-> content]

\* faulty variant of AppendSection: a degraded section is dropped
AppendSectionUnlessDegraded(secs, sec) ==
    IF \/ sec.content.kind = "qa" /\ sec.content.refs = <<>>
       \/ sec.content.kind = "text"
            /\ sec.content.text = "Error generating content."
    THEN secs
    ELSE Append(secs, sec)

\* sections.append(PageSection(...)), line 181
AppendSection(secs, sec) == Append(secs, sec)

\* build_page(state, template_key), lines 131-135
BuildBegin(t) ==
    /\ pc = "run_done"
    /\ template' = t
    /\ sections' = <<>>
    /\ bi' = 1
    /\ pc' = "block"
    /\ UNCHANGED <<call, raw, product, questions, q_response, heap, state,
                   relevant, qi, qa_list, page, err>>
    /\ invocations' = <<>>
    /\ UNCHANGED prev

CurBlock == template.structure[bi]

\* a logic_block block, lines 140-147 and 181
BlockLogic ==
    /\ pc = "block"
    /\ bi <= Len(template.structure)
    /\ IsLogic(CurBlock)
    /\ IF CurBlock.function \in LogicFunctions
       THEN /\ sections' = AppendSection(sections,
                                  Section(CurBlock, LogicContent(CurBlock)))
            /\ bi' = bi + 1
            /\ UNCHANGED <<pc, err>>
       ELSE /\ pc' = "build_raised"
            /\ err' = "AttributeError"
            /\ UNCHANGED <<sections, bi>>
    /\ UNCHANGED <<call, raw, product, questions, q_response, heap, state,
                   template, relevant, qi, qa_list, page>>
    /\ UNCHANGED <<invocations, prev>>

\* a subset_questions block, lines 149-161: filter, then ask for the first
\* answer; with no matching question the section is the empty list
BlockSubset ==
    /\ pc = "block"
    /\ bi <= Len(template.structure)
    /\ IsSubset(CurBlock)
    /\ LET rel == Filter(state.generated_questions, heap, CurBlock.filter)
       IN  /\ relevant' = rel
           /\ qa_list' = <<>>
           /\ IF rel = <<>>
              THEN /\ sections' = AppendSection(sections,
                          Section(CurBlock, [kind |-> "qa", refs |-> <<>>]))
                   /\ bi' = bi + 1
                   /\ UNCHANGED <<pc, call, qi, invocations>>
              ELSE /\ qi' = 1
                   /\ call' = NewCall("answer", FALSE)
                   /\ invocations' = Issued(invocations, "answer", FALSE,
                                             bi, rel[1])
                   /\ pc' = "ans_call"
                   /\ UNCHANGED <<sections, bi>>
    /\ UNCHANGED <<raw, product, questions, q_response, heap, state, template,
                   page, err>>
    /\ UNCHANGED prev

\* faulty variant of Answered: a question whose answer call failed gets no
\* record
AnsweredUnlessError(h, qa, q, ans) ==
    IF ans = "Error generating content."
    THEN [heap |-> h, qa_list |-> qa]
    ELSE LET cp == ModelCopy(h, q)
         IN  [ heap |-> [cp.heap EXCEPT
                            ![cp.ref].answer_text = Some(Strip(ans))],
               qa_list |-> Append(qa, cp.ref) ]

\* lines 163-165: the answer goes to a copy of the question, and the copy
\* to qa_list
Answered(h, qa, q, ans) ==
    LET cp == ModelCopy(h, q)
    IN  [ heap |-> [cp.heap EXCEPT ![cp.ref].answer_text = Some(Strip(ans))],
          qa_list |-> Append(qa, cp.ref) ]

\* lines 163-166 and 181: the record of the answer; then the next
\* question, or the section
AnswerReturn ==
    /\ pc = "ans_call"
    /\ call.status = "returned"
    /\ LET done == Answered(heap, qa_list, relevant[qi], call.result)
           qa == done.qa_list
       IN  /\ heap' = done.heap
           /\ qa_list' = qa
           /\ IF qi < Len(relevant)
              THEN /\ qi' = qi + 1
                   /\ call' = NewCall("answer", FALSE)
                   /\ invocations' = Issued(invocations, "answer", FALSE,
                                             bi, relevant[qi + 1])
                   /\ UNCHANGED <<pc, sections, bi>>
              ELSE /\ sections' = AppendSection(sections,
                          Section(CurBlock, [kind |-> "qa", refs |-> qa]))
                   /\ bi' = bi + 1
                   /\ pc' = "block"
                   /\ call' = IdleCall
                   /\ UNCHANGED <<qi, invocations>>
    /\ UNCHANGED <<raw, product, questions, q_response, state, template,
                   relevant, page, err>>
    /\ UNCHANGED prev

\* a freeform block, lines 168-179
BlockFreeform ==
    /\ pc = "block"
    /\ bi <= Len(template.structure)
    /\ ~IsLogic(CurBlock)
    /\ ~IsSubset(CurBlock)
    /\ call' = NewCall("freeform", FALSE)
    /\ pc' = "free_call"
    /\ UNCHANGED <<raw, product, questions, q_response, heap, state, template,
                   bi, relevant, qi, qa_list, sections, page, err>>
    /\ invocations' = Issued(invocations, "freeform", FALSE, bi, 0)
    /\ UNCHANGED prev

\* line 181 of a freeform block
FreeformReturn ==
    /\ pc = "free_call"
    /\ call.status = "returned"
    /\ sections' = AppendSection(sections,
                       Section(CurBlock, [kind |-> "text",
                                          text |-> call.result]))
    /\ bi' = bi + 1
    /\ pc' = "block"
    /\ call' = IdleCall
    /\ UNCHANGED <<raw, product, questions, q_response, heap, state, template,
                   relevant, qi, qa_list, page, err>>
    /\ UNCHANGED <<invocations, prev>>

\* lines 183-188
PageOutput ==
    [ page_type |-> template.page_type,
      meta_title |-> <<state.primary_product.name, " - ",
                       template.page_type>>,
      meta_description |-> <<"Automated ", template.page_type, " for ",
                             state.primary_product.name>>,
      sections |-> sections ]

BuildReturn ==
    /\ pc = "block"
    /\ bi > Len(template.structure)
    /\ page' = PageOutput
    /\ pc' = "done"
    /\ UNCHANGED <<call, raw, product, questions, q_response, heap, state,
                   template, bi, relevant, qi, qa_list, sections, err>>
    /\ UNCHANGED <<invocations, prev>>

Next ==
    \/ \E rd \in RawInputs : RunBegin(rd)
    \/ CallStep
    \/ QuestionsReturn
    \/ CompetitorReturn
    \/ CallRaised
    \/ \E t \in Templates : BuildBegin(t)
    \/ BlockLogic
    \/ BlockSubset
    \/ AnswerReturn
    \/ BlockFreeform
    \/ FreeformReturn
    \/ BuildReturn

Spec == Init /\ [][Next]_vars

-----------------------------------------------------------------------------
(* Properties of call_llm.                                                 *)

\* the code's test of a transient error, with the letter case as written
\* in the claim: the text holds "429" or "quota"
HoldsLiteral(error_msg) ==
    \/ Contains(error_msg, <<"4", "2", "9">>)
    \/ Contains(error_msg, <<"q", "u", "o", "t", "a">>)

\* a remote attempt can be made in this state
CanAttempt ==
    \/ \E text \in Responses(call.prompt) : ENABLED AttemptOk(text)
    \/ \E msg \in ErrorMsgs, jitter \in Jitter :
           ENABLED AttemptTransient(msg, jitter)
    \/ \E msg \in ErrorMsgs : ENABLED AttemptPermanent(msg)

\* C2: when every remote attempt of an invocation fails transiently,
\* call_llm makes exactly 5 attempts (indices 0..4), never a 6th, and then
\* raises "Max retries exceeded" instead of returning a value: no invocation
\* ever counts more than 5 remote attempts; an invocation that has slept 5
\* times (5 transient failures) has made exactly 5 attempts, can make no
\* further attempt, has returned nothing and can only raise; and an
\* invocation has raised only after exactly 5 attempts that all failed
\* transiently.
C2_ExhaustionRaisesAfterFive ==
    /\ call.remote <= 5
    /\ call.waits = 5 =>
           /\ call.remote = 5
           /\ call.status \in {"running", "raised"}
           /\ ~CanAttempt
           /\ call.status = "running" => ENABLED RaiseMaxRetries
    /\ call.status = "raised" =>
           /\ call.remote = 5
           /\ call.waits = 5
           /\ call.last = "error"
           /\ IsTransient(call.error_msg)
    /\ (call.status = "running" /\ call.waits < 5) => ~ENABLED RaiseMaxRetries

\* C2 witness: an invocation has raised after 5 transient failures
C2_Witness ==
    call.status = "raised" /\ call.remote = 5 /\ call.waits = 5

\* C3: an invocation whose attempts 0..k-1 failed transiently and whose
\* attempt k (k in 0..4) succeeded has returned exactly the text of that
\* response, after exactly k+1 remote attempts (at most 5), and makes no
\* attempt after the success.
C3_SuccessAfterTransients ==
    call.last = "ok" =>
        /\ call.status = "returned"
        /\ call.result = call.response
        /\ call.attempt \in 0..4
        /\ call.waits = call.attempt
        /\ call.remote = call.attempt + 1
        /\ call.remote <= 5
        /\ ~CanAttempt
        /\ ~ENABLED RaiseMaxRetries

\* C3 witness: a success on the last permitted attempt (k = 4), with a
\* response that differs from both fallback values
C3_Witness ==
    /\ call.last = "ok"
    /\ call.attempt = 4
    /\ call.remote = 5
    /\ call.result = "<p>Body</p>"

\* C4 as stated: after a remote attempt that failed with an error text
\* holding neither "429" nor "quota", call_llm has returned the fallback
\* ("{}" when expect_json, else "Error generating content."), without a wait
\* for that failure, without raising, and makes no further attempt.
C4_AsStated ==
    (call.last = "error" /\ ~HoldsLiteral(call.error_msg)) =>
        /\ call.status = "returned"
        /\ call.result = (IF call.expect_json THEN "{}"
                          ELSE "Error generating content.")
        /\ call.waits = call.remote - 1
        /\ ~CanAttempt
        /\ ~ENABLED RaiseMaxRetries

\* C4 amended: the same, for an error text that holds neither "429" nor,
\* in any letter case, "quota" (the code tests error_msg.lower()), on
\* whichever attempt index it occurs.
C4_PermanentFailureReturnsFallback ==
    (call.last = "error" /\ ~Contains(call.error_msg, <<"4", "2", "9">>)
       /\ ~Contains(Lower(call.error_msg), <<"q", "u", "o", "t", "a">>)) =>
        /\ call.status = "returned"
        /\ call.result = (IF call.expect_json THEN "{}"
                          ELSE "Error generating content.")
        /\ call.waits = call.remote - 1
        /\ call.waits = call.attempt
        /\ ~CanAttempt
        /\ ~ENABLED RaiseMaxRetries

\* C4 witness: a non-transient failure on attempt 2, after two transient
\* failures, of an invocation that expects JSON
C4_Witness ==
    /\ call.last = "error"
    /\ call.error_msg = <<"5", "0", "0">>
    /\ call.attempt = 2
    /\ call.expect_json
    /\ call.status = "returned"
    /\ call.result = "{}"

-----------------------------------------------------------------------------
(* Properties of the pipeline.                                             *)

BuildPcs == {"block", "ans_call", "free_call", "build_raised", "done"}

\* section sec is the one block produces
FromBlock(sec, block) ==
    /\ sec.heading = (IF "section" \in DOMAIN block THEN block.section
                      ELSE "Section")
    /\ IF "source" \in DOMAIN block /\ block.source = "logic_block"
       THEN sec.content.kind = "logic"
            /\ sec.content.function = block.function
       ELSE IF "source" \in DOMAIN block /\ block.source = "subset_questions"
       THEN sec.content.kind = "qa"
            /\ \A k \in 1..Len(sec.content.refs) :
                   heap[sec.content.refs[k]].category = block.filter
       ELSE sec.content.kind = "text"

\* the page has one section per block of the template, in the same order
PageMatchesTemplate ==
    /\ Len(page.sections) = Len(template.structure)
    /\ \A i \in 1..Len(template.structure) :
           FromBlock(page.sections[i], template.structure[i])

\* C1 as stated: build_page returns a page with one section per template
\* block, the i-th from the i-th block, for every outcome of every external
\* call, retry exhaustion included: no outcome of a block's call ends
\* build_page without the page.
C1_AsStated ==
    /\ pc = "done" => PageMatchesTemplate
    /\ ~(pc = "build_raised" /\ err = "Max retries exceeded")

\* C1 amended: whenever build_page returns, the page has exactly N sections,
\* the i-th from the i-th block; a call that returns (a success, a
\* non-transient failure, fewer than 5 transient failures before either)
\* never aborts the assembly, which goes on with the next question or block;
\* a call that exhausts its retries ends build_page with the fatal error and
\* without a page.
C1_PageHasSectionPerBlock ==
    /\ [](pc = "done" => PageMatchesTemplate)
    /\ [](pc \in {"block", "ans_call", "free_call"} =>
              /\ Len(sections) = bi - 1
              /\ \A i \in 1..Len(sections) :
                     FromBlock(sections[i], template.structure[i]))
    /\ [][(pc \in {"ans_call", "free_call"} /\ call.status = "returned")
              => /\ pc' \in {"block", "ans_call"}
                 /\ err' = ""
                 /\ \/ Len(qa_list') = Len(qa_list) + 1
                    \/ Len(sections') = Len(sections) + 1]_vars
    /\ [][(pc \in {"ans_call", "free_call"} /\ pc' = "build_raised")
              => (call.status = "raised" /\ call.waits = 5 /\ page' = NoPage
                  /\ err' = "Max retries exceeded")]_vars

\* C1 witness: a page of two sections whose first block's call failed
\* non-transiently (its text is the placeholder) and whose second block's
\* call succeeded
C1_Witness ==
    /\ pc = "done"
    /\ Len(template.structure) = 2
    /\ Len(page.sections) = 2
    /\ page.sections[1].content.kind = "text"
    /\ page.sections[1].content.text = "Error generating content."
    /\ page.sections[2].content.kind = "text"
    /\ page.sections[2].content.text = "<p>Body</p>"

\* C5: a pipeline run ends with an error only when retries were exhausted
\* or a required raw field was absent; every other failure (an unparseable
\* price text, a block naming a logic function that does not exist, ...)
\* is replaced by a safe default and the page is produced.
C5_OnlyTwoFatalCases ==
    pc \in {"run_raised", "build_raised"} =>
        \/ err = "Max retries exceeded"
        \/ /\ pc = "run_raised"
           /\ \E k \in { "Product Name", "Skin Type", "Key Ingredients",
                         "Benefits", "How to Use", "Side Effects", "Price" } :
                  k \notin raw.keys

\* a CompetitorProduct the response texts can yield
IsCompetitor(c) ==
    \/ c = [ name |-> "Unknown", key_ingredients |-> <<>>,
             benefits |-> <<>>, price |-> [m |-> 0, e |-> 0] ]
    \/ c = [ name |-> "Product B", key_ingredients |-> <<"Retinol">>,
             benefits |-> <<"Glow">>, price |-> [m |-> 500, e |-> 0] ]

\* C6 as stated: competitor synthesis always yields a CompetitorProduct and
\* never propagates an error: once run waits for the competitor call, it
\* goes on only by returning its state.
C6_AsStated ==
    [][pc = "c_call" => pc' \in {"c_call", "run_done"}]_vars

\* C6 amended: competitor synthesis yields a CompetitorProduct for every
\* outcome of its external call but retry exhaustion (a success with any
\* text, a non-transient failure, fewer than 5 transient failures before
\* either); when its call exhausts the retries, the fatal error reaches the
\* caller of run and no state is returned.
C6_CompetitorUnlessExhausted ==
    /\ [][(pc = "c_call" /\ pc' # "c_call") =>
              \/ /\ call.status = "returned"
                 /\ pc' = "run_done"
                 /\ err' = ""
                 /\ IsCompetitor(state'.competitor_product)
              \/ /\ call.status = "raised"
                 /\ call.waits = 5
                 /\ pc' = "run_raised"
                 /\ err' = "Max retries exceeded"
                 /\ state' = NoState]_vars
    /\ []((pc = "c_call" /\ call.status = "returned") =>
              ENABLED CompetitorReturn)

\* C6 witness: run returned a state although the competitor call failed
\* (the competitor is the placeholder)
C6_Witness ==
    /\ pc = "run_done"
    /\ state.competitor_product.name = "Unknown"

\* the competitor responses that are not a valid record: undecodable, not an
\* object, without a required key, with a wrongly typed value
BadCompetitorTexts ==
    { "not json", "{}", "[]",
      "{\"name\": \"Product B\", \"key_ingredients\": [\"Retinol\"], \"benefits\": [\"Glow\"]}",
      "{\"name\": \"Product B\", \"key_ingredients\": [\"Retinol\"], \"benefits\": [\"Glow\"], \"price\": \"cheap\"}" }

\* C7: when competitor synthesis fails without retry exhaustion (the
\* response is no decodable JSON, lacks a required key or has a wrongly
\* typed value, or the call failed non-transiently and returned "{}"), the
\* competitor of the returned state is the placeholder: name "Unknown", no
\* key_ingredients, no benefits, price 0.0.
C7_FailedSynthesisGivesPlaceholder ==
    [][(pc = "c_call" /\ call.status = "returned"
          /\ (call.result \in BadCompetitorTexts \/ call.last = "error"))
          => /\ pc' = "run_done"
             /\ state'.competitor_product.name = "Unknown"
             /\ state'.competitor_product.key_ingredients = <<>>
             /\ state'.competitor_product.benefits = <<>>
             /\ state'.competitor_product.price = [m |-> 0, e |-> 0]
             /\ state'.primary_product = product
             /\ state'.generated_questions = questions]_vars

\* C7 witness: the returned state holds the placeholder and the generated
\* questions
C7_Witness ==
    /\ pc = "run_done"
    /\ state.competitor_product =
           [ name |-> "Unknown", key_ingredients |-> <<>>,
             benefits |-> <<>>, price |-> [m |-> 0, e |-> 0] ]
    /\ Len(state.generated_questions) = 3

\* the one question response whose entries are all valid
GoodQuestionsText ==
    "{\"questions\": [{\"category\": \"Safety\", \"question_text\": \"q1\"}, {\"category\": \"Usage\", \"question_text\": \"q2\"}, {\"category\": \"Safety\", \"question_text\": \"q3\"}]}"

\* its entries, in response order
GoodQuestions ==
    << [category |-> "Safety", question_text |-> "q1",
        answer_text |-> [some |-> FALSE, s |-> ""]],
       [category |-> "Usage", question_text |-> "q2",
        answer_text |-> [some |-> FALSE, s |-> ""]],
       [category |-> "Safety", question_text |-> "q3",
        answer_text |-> [some |-> FALSE, s |-> ""]] >>

\* the list the objects of run's local questions make up
QuestionList == [i \in 1..Len(questions) |-> heap[questions[i]]]

\* C8: question generation is all-or-nothing and propagates no decode or
\* shape error: when the response is no decodable JSON, has no "questions"
\* key, or holds even one entry that is no valid UserQuestion, the question
\* list is empty (never the valid entries alone); when every entry is valid
\* the list is the entries in response order; and in each case run goes on
\* to the competitor call.
C8_QuestionsAllOrNothing ==
    /\ [](pc = "c_call" =>
              QuestionList = (IF q_response = GoodQuestionsText
                              THEN GoodQuestions ELSE <<>>))
    /\ [][(pc = "q_call" /\ call.status = "returned") =>
              /\ pc' = "c_call"
              /\ err' = ""
              /\ q_response' = call.result
              /\ call'.status = "running"
              /\ call'.prompt = "competitor"]_vars

\* C8 witness: the list is empty after a response with two valid entries
\* and an invalid one, and the competitor call is running
C8_Witness ==
    /\ pc = "c_call"
    /\ q_response = "{\"questions\": [{\"category\": \"Safety\", \"question_text\": \"q1\"}, {\"category\": \"Usage\"}, {\"category\": \"Safety\", \"question_text\": \"q3\"}]}"
    /\ questions = <<>>
    /\ call.status = "running"
    /\ call.prompt = "competitor"

\* the canonical questions: the objects state.generated_questions refers to
Canonical == {state.generated_questions[i] :
                  i \in 1..Len(state.generated_questions)}

\* C9: build_page never modifies the canonical pipeline state: no step of
\* build_page changes state (its product, its competitor, its question
\* list) or a question object the list refers to; every canonical question
\* still has no answer_text; the answers are on per-section copies, which
\* are other objects than the canonical ones.
C9_BuildPageKeepsState ==
    /\ [][(pc \in BuildPcs) =>
              /\ state' = state
              /\ \A r \in Canonical : heap'[r] = heap[r]]_vars
    /\ [](pc \in BuildPcs =>
              /\ \A r \in Canonical : ~heap[r].answer_text.some
              /\ \A i \in 1..Len(sections) :
                     sections[i].content.kind = "qa" =>
                         \A k \in 1..Len(sections[i].content.refs) :
                             LET r == sections[i].content.refs[k]
                             IN  r \notin Canonical
                                 /\ heap[r].answer_text.some)

\* C9 witness: a page with two subset_questions sections of the same
\* category, each with two answered records
C9_Witness ==
    /\ pc = "done"
    /\ Len(page.sections) = 2
    /\ \A i \in 1..2 :
           /\ page.sections[i].content.kind = "qa"
           /\ Len(page.sections[i].content.refs) = 2

\* the positions in state.generated_questions of the questions of category c
Matching(c) ==
    {i \in 1..Len(state.generated_questions) :
         heap[state.generated_questions[i]].category = c}

\* the k-th smallest element of the set of positions S
Kth(S, k) == CHOOSE i \in S : Cardinality({j \in S : j < i}) = k - 1

\* C10: the content of the section of a subset_questions block with filter
\* c has exactly one record per question of state.generated_questions whose
\* category is c, none for another question, in the order of the generated
\* list; each record has the category and question_text of its question and
\* an answer_text that is not absent.
C10_SubsetSectionMatchesFilter ==
    pc \in BuildPcs =>
        \A i \in 1..Len(sections) :
            LET block == template.structure[i]
                refs == sections[i].content.refs
            IN  ("source" \in DOMAIN block
                   /\ block.source = "subset_questions") =>
                    /\ sections[i].content.kind = "qa"
                    /\ Len(refs) = Cardinality(Matching(block.filter))
                    /\ \A k \in 1..Len(refs) :
                           LET q == heap[state.generated_questions[
                                          Kth(Matching(block.filter), k)]]
                           IN  /\ heap[refs[k]].category = q.category
                               /\ heap[refs[k]].question_text
                                      = q.question_text
                               /\ heap[refs[k]].category = block.filter
                               /\ heap[refs[k]].answer_text.some

\* C10 witness: a Safety section with the records of q1 and q3, in that
\* order, out of three generated questions
C10_Witness ==
    /\ pc = "done"
    /\ Len(state.generated_questions) = 3
    /\ \E i \in 1..Len(page.sections) :
           /\ page.sections[i].content.kind = "qa"
           /\ Len(page.sections[i].content.refs) = 2
           /\ heap[page.sections[i].content.refs[1]].question_text = "q1"
           /\ heap[page.sections[i].content.refs[2]].question_text = "q3"

-----------------------------------------------------------------------------
(* Properties of the invocations build_page issues.                        *)

\* the invocations block i of the template calls for: none for a
\* logic_block block, one per matching question in generation order for a
\* subset_questions block, one for a freeform block
BlockCalls(i) ==
    LET block == template.structure[i]
    IN  IF "source" \in DOMAIN block /\ block.source = "logic_block"
        THEN <<>>
        ELSE IF "source" \in DOMAIN block
                /\ block.source = "subset_questions"
        THEN [k \in 1..Cardinality(Matching(block.filter)) |->
                 [ prompt |-> "answer", expect_json |-> FALSE, block |-> i,
                   question |-> state.generated_questions[
                                    Kth(Matching(block.filter), k)] ]]
        ELSE << [ prompt |-> "freeform", expect_json |-> FALSE, block |-> i,
                  question |-> 0 ] >>

\* the invocations blocks 1..i call for, in template order
RECURSIVE CallsUpTo(_)
CallsUpTo(i) == IF i = 0 THEN <<>> ELSE CallsUpTo(i - 1) \o BlockCalls(i)

\* C11: build_page issues its invocations one at a time and in template
\* order, and the template and the question list determine them: at every
\* point the invocations issued so far are exactly those the blocks done so
\* far call for (none for a logic_block block, one per matching question in
\* generation order for a subset_questions block, one for a freeform block),
\* followed by those of the current block up to the current question; a new
\* invocation is issued only when no other is running (none was issued yet
\* or the last one has returned), so none of block i+1 starts before all of
\* block i have returned; when build_page returns, the invocations are all
\* those the template calls for, and when it is aborted, a prefix of them.
C11_InvocationsFollowTemplate ==
    /\ [](pc = "done" => invocations = CallsUpTo(Len(template.structure)))
    /\ [](pc = "block" => invocations = CallsUpTo(bi - 1))
    /\ [](pc = "free_call" => invocations = CallsUpTo(bi))
    /\ [](pc = "ans_call" =>
              invocations = CallsUpTo(bi - 1) \o SubSeq(BlockCalls(bi), 1, qi))
    /\ [](pc = "build_raised" =>
              \E n \in 0..Len(CallsUpTo(Len(template.structure))) :
                  invocations = SubSeq(CallsUpTo(Len(template.structure)),
                                       1, n))
    /\ [](pc \in {"ans_call", "free_call"} =>
              /\ call.status # "idle"
              /\ call.prompt = invocations[Len(invocations)].prompt
              /\ call.expect_json = invocations[Len(invocations)].expect_json)
    /\ [][(pc \in BuildPcs /\ invocations' # invocations) =>
              /\ Len(invocations') = Len(invocations) + 1
              /\ SubSeq(invocations', 1, Len(invocations)) = invocations
              /\ call.status \in {"idle", "returned"}
              /\ call'.status = "running"
              /\ call'.remote = 0]_vars
    /\ [][(pc \in BuildPcs /\ call.status # "running"
              /\ call'.status = "running") =>
              Len(invocations') = Len(invocations) + 1]_vars

\* C11 witness: a page from a Safety subset block followed by a freeform
\* block, built with three invocations: two answers for block 1, about two
\* different questions, then the freeform text of block 2
C11_Witness ==
    /\ pc = "done"
    /\ Len(template.structure) = 2
    /\ Len(invocations) = 3
    /\ invocations[1].prompt = "answer" /\ invocations[1].block = 1
    /\ invocations[2].prompt = "answer" /\ invocations[2].block = 1
    /\ invocations[1].question # invocations[2].question
    /\ invocations[3].prompt = "freeform" /\ invocations[3].block = 2

-----------------------------------------------------------------------------
(* Properties of ingestion.                                                *)

\* C12: when a required raw field (Product Name, Skin Type, Key
\* Ingredients, Benefits, How to Use, Side Effects, Price) is absent, run
\* has failed with the error of a missing field, before any invocation was
\* issued and without returning a state.
C12_MissingFieldFailsAtIngestion ==
    (pc # "start"
       /\ \E k \in { "Product Name", "Skin Type", "Key Ingredients",
                     "Benefits", "How to Use", "Side Effects", "Price" } :
              k \notin raw.keys) =>
        /\ pc = "run_raised"
        /\ err = "KeyError"
        /\ call.status = "idle"
        /\ invocations = <<>>
        /\ state = NoState

\* C13: a raw input with every required field and no Concentration key is
\* normalised into a ProductData without concentration, and run has gone on
\* to question generation.
C13_ConcentrationOptional ==
    (pc # "start"
       /\ raw.keys = { "Product Name", "Skin Type", "Key Ingredients",
                       "Benefits", "How to Use", "Side Effects", "Price" }) =>
        /\ pc = "q_call"
        /\ err = ""
        /\ ~product.has_concentration
        /\ call.status = "running"
        /\ call.prompt = "questions"

\* what re.sub leaves of the text of the raw price
PriceRest == KeepDigitsAndDots(PriceStr(raw.price))

\* C14: the content of a present Price field never makes normalisation
\* fail, and an invalid price (a non-empty text without a digit, or one
\* whose digits and dots make no number, as with two decimal points) gives
\* price 0.
C14_PriceAlwaysCoerced ==
    (pc # "start" /\ "Price" \in raw.keys) =>
        /\ err # "ValueError"
        /\ (/\ pc = "q_call"
            /\ \/ \A i \in 1..Len(PriceRest) : PriceRest[i] = "."
               \/ CountDots(PriceRest) >= 2) =>
               product.price = [m |-> 0, e |-> 0]

\* the digits and dots of s, read as a decimal numeral, denote m / 10^e
Denotes(s, num) ==
    DigitsValue(s) * Pow10(num.e) = num.m * Pow10(FractionLen(s))

\* C15: for a raw price text made of digits, currency symbols and
\* separators (with a digit in it) the normalised price is the number the
\* text denotes once every character that is no digit and no decimal point
\* is deleted; for a falsy price (empty text, 0, None) it is 0.0.
C15_PriceIsDenotedNumber ==
    (pc # "start"
       /\ { "Product Name", "Skin Type", "Key Ingredients", "Benefits",
            "How to Use", "Side Effects", "Price" } \subseteq raw.keys) =>
        /\ (/\ raw.price.kind = "str"
            /\ \A i \in 1..Len(raw.price.chars) :
                   raw.price.chars[i]
                       \in {"0", "1", "5", "6", "9", "$", ",", "."}
            /\ \E j \in 1..Len(raw.price.chars) :
                   raw.price.chars[j] \in {"0", "1", "5", "6", "9"}) =>
               /\ pc = "q_call"
               /\ Denotes(PriceRest, product.price)
        /\ (raw.price = [kind |-> "str", chars |-> <<>>, n |-> 0]
              \/ raw.price = [kind |-> "int", chars |-> <<>>, n |-> 0]
              \/ raw.price = [kind |-> "none", chars |-> <<>>, n |-> 0]) =>
               /\ pc = "q_call"
               /\ product.price = [m |-> 0, e |-> 0]

-----------------------------------------------------------------------------
(* Properties of the waits and of successive invocations of call_llm.      *)

\* C16: the wait after a transient failure on attempt a (counted from 0)
\* lies in [20*2^a + 1, 20*2^a + 5]: the last wait of an invocation that
\* has waited is in the interval of the attempt it followed, every step
\* that waits takes its wait from the interval of the attempt that failed,
\* and each wait of an invocation is greater than the one before it.
C16_WaitWithinBackoffInterval ==
    /\ [](call.waits > 0 =>
              /\ call.wait_time >= 20 * 2^(call.waits - 1) + 1
              /\ call.wait_time <= 20 * 2^(call.waits - 1) + 5)
    /\ [][(call.status = "running" /\ call'.waits # call.waits) =>
              /\ call'.waits = call.waits + 1
              /\ call.attempt = call.waits
              /\ call'.wait_time >= 20 * 2^(call.attempt) + 1
              /\ call'.wait_time <= 20 * 2^(call.attempt) + 5
              /\ call.waits > 0 => call'.wait_time > call.wait_time]_vars

\* C16 witness: the fifth wait of an invocation, with the least jitter
C16_Witness ==
    call.status = "running" /\ call.waits = 5 /\ call.wait_time = 321

\* C17: every invocation starts at attempt index 0, with no attempt made
\* and no wait behind it, whatever the earlier invocation came to; it has
\* the whole budget (while it runs with fewer than 5 attempts made, another
\* attempt is possible, and it raises only after 5 attempts of its own);
\* and its first wait is taken from the base interval [21, 25].
C17_InvocationsIndependent ==
    /\ [][(call.status # "running" /\ call'.status = "running") =>
              /\ call'.attempt = 0
              /\ call'.remote = 0
              /\ call'.waits = 0
              /\ call'.wait_time = 0
              /\ call'.last = "none"]_vars
    /\ []((call.status = "running" /\ call.remote < 5) =>
              /\ CanAttempt
              /\ ~ENABLED RaiseMaxRetries)
    /\ [](call.status = "raised" => call.remote = 5)
    /\ [](call.remote = call.attempt + (IF call.status = "returned"
                                         THEN 1 ELSE 0))
    /\ [](call.waits = 1 =>
              (call.wait_time >= 21 /\ call.wait_time <= 25))

\* C17 witness: after an invocation that exhausted its retries (last wait
\* 325), the next invocation has made one attempt and its first wait is 21
C17_Witness ==
    /\ prev.status = "raised"
    /\ prev.waits = 5
    /\ prev.wait_time = 325
    /\ call.status = "running"
    /\ call.remote = 1
    /\ call.waits = 1
    /\ call.wait_time = 21

\* C19: call_llm waits after every transient failure, the one of the last
\* permitted attempt (index 4) included: that failure is followed by a wait
\* of at least 321, the fifth of the invocation; after it no remote attempt
\* is possible and the only step is the fatal error; an invocation that has
\* raised has made 5 attempts and 5 waits.
C19_WaitsAfterLastAttempt ==
    /\ [][(call.status = "running" /\ call.attempt = 4
              /\ call'.remote = call.remote + 1 /\ call'.last = "error"
              /\ IsTransient(call'.error_msg)) =>
              /\ call'.waits = 5
              /\ call.waits = 4
              /\ call'.wait_time >= 321
              /\ call'.remote = 5
              /\ call'.status = "running"]_vars
    /\ []((call.status = "running" /\ call.attempt = 5) =>
              /\ call.waits = 5
              /\ call.wait_time >= 321
              /\ ~CanAttempt
              /\ ENABLED RaiseMaxRetries)
    /\ [][(call.status = "running" /\ call.attempt = 5 /\ call' # call) =>
              /\ call'.status = "raised"
              /\ call'.remote = call.remote
              /\ call'.waits = call.waits]_vars
    /\ [](call.status = "raised" =>
              /\ call.waits = 5
              /\ call.remote = 5
              /\ call.wait_time >= 321)

\* C19 witness: an invocation has raised after a last wait of 323
C19_Witness ==
    /\ call.status = "raised"
    /\ call.waits = 5
    /\ call.wait_time = 323

-----------------------------------------------------------------------------
(* Properties of the state run returns and of degraded answers.            *)

\* the invocations of run: question generation, then competitor synthesis,
\* both expecting JSON
RunCalls ==
    << [ prompt |-> "questions", expect_json |-> TRUE, block |-> 0,
         question |-> 0 ],
       [ prompt |-> "competitor", expect_json |-> TRUE, block |-> 0,
         question |-> 0 ] >>

\* C18: whenever run has returned, the state holds the normalised product,
\* a question list (empty or the generated questions, each an object that
\* exists) and one competitor, and run has issued exactly two invocations,
\* question generation first and competitor synthesis second, both with
\* expect_json true; whatever the question call returned (the fallback of a
\* non-transient failure, a malformed response), the competitor invocation
\* is issued next.
C18_RunReturnsFullState ==
    /\ [](pc = "run_done" =>
              /\ state.primary_product.name = "GlowBoost"
              /\ state.primary_product.skin_type = <<<<"O", "i", "l", "y">>,
                                                     <<"D", "r", "y">>>>
              /\ Len(state.generated_questions) \in {0, 3}
              /\ \A i \in 1..Len(state.generated_questions) :
                     state.generated_questions[i] \in 1..Len(heap)
              /\ IsCompetitor(state.competitor_product)
              /\ invocations = RunCalls)
    /\ [](pc = "q_call" =>
              /\ invocations = <<RunCalls[1]>>
              /\ call.prompt = "questions"
              /\ call.expect_json)
    /\ [](pc = "c_call" =>
              /\ invocations = RunCalls
              /\ call.prompt = "competitor"
              /\ call.expect_json)
    /\ [][(pc = "q_call" /\ call.status = "returned") =>
              /\ pc' = "c_call"
              /\ call'.status = "running"
              /\ call'.remote = 0
              /\ invocations' = RunCalls]_vars
    /\ [][(pc = "c_call" /\ pc' = "run_done") =>
              /\ state'.primary_product = product
              /\ state'.generated_questions = questions]_vars

\* C18 witness: run returned a state with no question (question generation
\* failed) and the competitor of the response, after two invocations
C18_Witness ==
    /\ pc = "run_done"
    /\ state.generated_questions = <<>>
    /\ state.competitor_product.name = "Product B"
    /\ state.primary_product.price = [m |-> 699, e |-> 0]
    /\ Len(invocations) = 2

\* C20: when the answer call of a matching question fails non-transiently,
\* that question still gets its record, with the answer_text "Error
\* generating content."; the records made before stay as they are; the next
\* matching question is asked about in an invocation of its own, or, after
\* the last one, the section is appended with one record per matching
\* question; and every subset_questions section has as many records as
\* there are matching questions.
C20_FailedAnswerDegradesOneRecord ==
    /\ [][(pc = "ans_call" /\ call.status = "returned"
              /\ call.last = "error") =>
              /\ Len(qa_list') = Len(qa_list) + 1
              /\ \A k \in 1..Len(qa_list) :
                     /\ qa_list'[k] = qa_list[k]
                     /\ heap'[qa_list[k]] = heap[qa_list[k]]
              /\ LET rec == heap'[qa_list'[Len(qa_list')]]
                 IN  /\ rec.answer_text =
                            [some |-> TRUE, s |-> "Error generating content."]
                     /\ rec.question_text = heap[relevant[qi]].question_text
                     /\ rec.category = heap[relevant[qi]].category
              /\ IF qi < Len(relevant)
                 THEN /\ pc' = "ans_call"
                      /\ call'.status = "running"
                      /\ call'.prompt = "answer"
                      /\ call'.remote = 0
                      /\ Len(invocations') = Len(invocations) + 1
                      /\ invocations'[Len(invocations')].question
                             = relevant[qi + 1]
                 ELSE /\ pc' = "block"
                      /\ Len(sections') = Len(sections) + 1
                      /\ sections'[Len(sections')].content.kind = "qa"
                      /\ sections'[Len(sections')].content.refs = qa_list'
                      /\ Len(qa_list') = Len(relevant)]_vars
    /\ [](pc \in BuildPcs =>
              \A i \in 1..Len(sections) :
                  sections[i].content.kind = "qa" =>
                      Len(sections[i].content.refs) =
                          Cardinality(Matching(template.structure[i].filter)))

\* C20 witness: a page with a section of two records, the first with the
\* placeholder of a failed answer call, the second with an answer
C20_Witness ==
    /\ pc = "done"
    /\ \E i \in 1..Len(page.sections) :
           /\ page.sections[i].content.kind = "qa"
           /\ Len(page.sections[i].content.refs) = 2
           /\ heap[page.sections[i].content.refs[1]].answer_text.s
                  = "Error generating content."
           /\ heap[page.sections[i].content.refs[2]].answer_text.s = "Yes."

====
